---- MODULE Spec2Model ----
(***************************************************************************)
(* Model of src/executor/select.rs: the lazy SELECT pipeline               *)
(*   fetch_blended -> fold(join) -> filter -> enumerate -> limit -> blend  *)
(* One run of the model is one query pulled to exhaustion by its consumer. *)
(* Option<T> is modelled as a sequence of length 0 (None) or 1 (Some).     *)
(***************************************************************************)
EXTENDS Integers, Sequences, FiniteSets, TLC

VARIABLES storage, statement, params, pc, pos, k, blend_context, ordinal,
          out, fault, drv, log

vars == <<storage, statement, params, pc, pos, k, blend_context, ordinal,
          out, fault, drv, log>>

(* ------------------------------ bounds -------------------------------- *)
MaxRows == 3

MaxJoins == 2

(* ------------------------------ values -------------------------------- *)
None == << >>

Some(x) == <<x>>

IsSome(o) == Len(o) = 1

IntV(n) == [kind |-> "Int", i |-> n, s |-> ""]

StrV(x) == [kind |-> "Str", i |-> 0, s |-> x]

RECURSIVE SeqsUpTo(_, _)
SeqsUpTo(S, n) ==
    IF n = 0 THEN { << >> }
    ELSE LET shorter == SeqsUpTo(S, n - 1)
         IN  shorter \cup { Append(q, x) : q \in { p \in shorter : Len(p) = n - 1 }, x \in S }

(* --------------------------- storage contract ------------------------- *)
\* Column schema of a table (Store::get_schema behind fetch_columns).
fetch_columns(table) ==
    IF table = "t1" THEN <<"id", "name">> ELSE <<"id", "val">>

\* Store::get_data: Err when the table cannot be scanned, else the (key, row)
\* pairs in storage enumeration order.
get_data(store, name) ==
    [ok   |-> name \notin store.failing,
     rows |-> [i \in 1..Len(store.data[name]) |->
                  [key |-> i, row |-> store.data[name][i]]]]

(* ------------------------ predicate evaluation ------------------------ *)
IndexOf(columns, name) ==
    IF \E i \in 1..Len(columns) : columns[i] = name
    THEN Some(CHOOSE i \in 1..Len(columns) : columns[i] = name)
    ELSE None

\* One scope's answer to a qualified column reference.
ScopeValue(ref, table, columns, row) ==
    IF table = ref.table /\ IsSome(IndexOf(columns, ref.column))
    THEN Some(row[IndexOf(columns, ref.column)[1]])
    ELSE None

\* Walk the chain outward from the innermost scope.
RECURSIVE ChainValue(_, _)
ChainValue(ref, ctx) ==
    IF ctx = None THEN None
    ELSE LET c == ctx[1]
             v == ScopeValue(ref, c.table, c.columns, c.row)
         IN  IF IsSome(v) THEN v ELSE ChainValue(ref, c.next)

\* BlendedFilter::check(item): the optional candidate scope first, then the chain.
Resolve(ref, item, ctx) ==
    IF IsSome(item) /\ IsSome(ScopeValue(ref, item[1].table, item[1].columns, item[1].row))
    THEN ScopeValue(ref, item[1].table, item[1].columns, item[1].row)
    ELSE ChainValue(ref, ctx)

\* "true" / "false" / "notfound".  where_clause is an Option of an expression
\* [op, l, r, v]: op "eq" compares two columns, op "eqv" a column and a literal.
check(where_clause, item, ctx) ==
    IF where_clause = None THEN "true"
    ELSE LET e  == where_clause[1]
             lv == Resolve(e.l, item, ctx)
             rv == IF e.op = "eq" THEN Resolve(e.r, item, ctx) ELSE Some(e.v)
         IN  IF lv = None \/ rv = None THEN "notfound"
             ELSE IF lv[1] = rv[1] THEN "true" ELSE "false"

(* ------------------------------ limit --------------------------------- *)
\* Limit::check(i) for the window [offset, count], each an Option.
limit_check(limit_clause, i) ==
    IF limit_clause = None THEN TRUE
    ELSE LET w   == limit_clause[1]
             off == IF w.offset = None THEN 0 ELSE w.offset[1]
         IN  i >= off /\ (w.count = None \/ i < off + w.count[1])

(* ------------------------------ blend --------------------------------- *)
\* Blend::apply(columns, row) for the field list: "*" or a column name.
RECURSIVE blend_apply(_, _, _)
blend_apply(fields, columns, row) ==
    IF fields = << >> THEN << >>
    ELSE (IF Head(fields) = "*" THEN row
          ELSE IF IsSome(IndexOf(columns, Head(fields)))
               THEN <<row[IndexOf(columns, Head(fields))[1]]>>
               ELSE << >>)
         \o blend_apply(Tail(fields), columns, row)

(* --------------------------- select.rs -------------------------------- *)
\* Join columns collected in the reverse of the clause order.
fetch_select_params_Reversed(stmt) ==
    [table        |-> stmt.tables[1],
     columns      |-> fetch_columns(stmt.tables[1]),
     join_columns |-> [i \in 1..Len(stmt.join) |->
                          [table   |-> stmt.join[Len(stmt.join) + 1 - i].right,
                           columns |-> fetch_columns(stmt.join[Len(stmt.join) + 1 - i].right)]]]

\* fetch_select_params: driving table, its columns, and per join clause the
\* joined table with its columns, in clause order.
fetch_select_params(stmt) ==
    [table        |-> stmt.tables[1],
     columns      |-> fetch_columns(stmt.tables[1]),
     join_columns |-> [i \in 1..Len(stmt.join) |->
                          [table   |-> stmt.join[i].right,
                           columns |-> fetch_columns(stmt.join[i].right)]]]

\* The seed chain fetch_blended builds for one stored (key, row).
SeedContext(table, columns, item) ==
    [table |-> table, columns |-> columns, key |-> item.key, row |-> item.row,
     next |-> None]

\* A join that yields the last passing row instead of the first.
FirstMatch_Last(passes) ==
    IF \E i \in 1..Len(passes) : passes[i]
    THEN Some(CHOOSE i \in 1..Len(passes) :
                 passes[i] /\ \A j \in (i + 1)..Len(passes) : ~passes[j])
    ELSE None

\* .filter(check).next() of join: the index of the first scanned row whose ON
\* predicate holds; passes[i] is the predicate's value on the i-th row.
FirstMatch(passes) ==
    IF \E i \in 1..Len(passes) : passes[i]
    THEN Some(CHOOSE i \in 1..Len(passes) :
                 passes[i] /\ \A j \in 1..(i - 1) : ~passes[j])
    ELSE None

\* A join that forgets the incoming chain when it adds the matched scope.
Extend_Unlinked(table, columns, item, ctx) ==
    [table |-> table, columns |-> columns, key |-> item.key, row |-> item.row,
     next |-> None]

\* The scope join puts in front of the incoming chain on a match.
Extend(table, columns, item, ctx) ==
    [table |-> table, columns |-> columns, key |-> item.key, row |-> item.row,
     next |-> Some(ctx)]

\* A join that drops the unmatched row under every supported operator.
Absent_DropsLeft(operator, ctx) ==
    IF operator \in {"LeftJoin", "LeftOuterJoin", "Join", "InnerJoin"}
    THEN [tag |-> "None", ctx |-> None, why |-> ""]
    ELSE [tag |-> "Panic", ctx |-> None, why |-> "unimplemented:operator"]

\* match operator { ... } of join when no row matched.
Absent(operator, ctx) ==
    IF operator \in {"LeftJoin", "LeftOuterJoin"} THEN [tag |-> "Some", ctx |-> Some(ctx), why |-> ""]
    ELSE IF operator \in {"Join", "InnerJoin"} THEN [tag |-> "None", ctx |-> None, why |-> ""]
    ELSE [tag |-> "Panic", ctx |-> None, why |-> "unimplemented:operator"]

\* join(storage, join_clause, table, columns, filter_context = None, blend_context)
join(store, join_clause, table, columns, ctx) ==
    IF join_clause.constraint.kind # "On"
    THEN [tag |-> "Panic", ctx |-> None, why |-> "unimplemented:constraint"]
    ELSE LET data == get_data(store, table)
         IN  IF ~data.ok
             THEN [tag |-> "Panic", ctx |-> None, why |-> "unwrap:join"]
             ELSE LET passes == [i \in 1..Len(data.rows) |->
                          check(Some(join_clause.constraint.on),
                                Some([table |-> table, columns |-> columns,
                                      row |-> data.rows[i].row]),
                                Some(ctx)) = "true"]
                      m == FirstMatch(passes)
                  IN  IF IsSome(m)
                      THEN [tag |-> "Some",
                            ctx |-> Some(Extend(table, columns, data.rows[m[1]], ctx)),
                            why |-> ""]
                      ELSE Absent(join_clause.operator, ctx)

(* ------------------------------ inputs -------------------------------- *)
T1Rows == { <<IntV(1), StrV("a")>>, <<IntV(2), StrV("b")>> }

\* Contents of t2: no row; a match in front of a non-match; a non-match in
\* front of two matches.
T2Tables == { << >>,
              <<<<IntV(1), IntV(10)>>, <<IntV(3), IntV(30)>>>>,
              <<<<IntV(2), IntV(20)>>, <<IntV(1), IntV(10)>>, <<IntV(1), IntV(11)>>>> }

\* Contents of t3: two rows that match driving id 2 only.
T3Table == <<<<IntV(2), IntV(200)>>, <<IntV(2), IntV(201)>>>>

ExampleData ==
    [t \in {"t1", "t2", "t3"} |->
        IF t = "t1" THEN <<<<IntV(1), StrV("a")>>, <<IntV(2), StrV("b")>>>>
        ELSE IF t = "t2" THEN <<<<IntV(1), IntV(10)>>, <<IntV(3), IntV(30)>>>>
        ELSE T3Table]

Ref(t, c) == [table |-> t, column |-> c]

Expr(op, l, r, v) == [op |-> op, l |-> l, r |-> r, v |-> v]

\* ON t1.id = <t>.id
OnIdEq(t) == [kind |-> "On", on |-> Expr("eq", Ref("t1", "id"), Ref(t, "id"), IntV(0))]

\* USING (id): carries no ON expression.
Using == [kind |-> "Using", on |-> Expr("eq", Ref("t1", "id"), Ref("t1", "id"), IntV(0))]

Operators == {"Join", "InnerJoin", "LeftJoin", "LeftOuterJoin", "CrossJoin"}

\* The table the i-th join clause names.
TableAt(i) == IF i % 2 = 1 THEN "t2" ELSE "t3"

JoinsOf(ops) ==
    [i \in 1..Len(ops) |->
        [operator |-> ops[i], right |-> TableAt(i), constraint |-> OnIdEq(TableAt(i))]]

JoinLists ==
    { JoinsOf(ops) : ops \in SeqsUpTo(Operators, MaxJoins) }
    \cup { <<[operator |-> "InnerJoin", right |-> "t2", constraint |-> Using]>> }

WhereId == Some(Expr("eqv", Ref("t1", "id"), Ref("t1", "id"), IntV(1)))

WhereVal == Some(Expr("eqv", Ref("t2", "val"), Ref("t2", "val"), IntV(10)))

Window(o, c) == [offset |-> o, count |-> c]

Limits == { None, Some(Window(Some(1), Some(1))), Some(Window(None, Some(1))) }

Stores ==
    { [data |-> [t \in {"t1", "t2", "t3"} |->
                    IF t = "t1" THEN a ELSE IF t = "t2" THEN b ELSE T3Table],
       failing |-> {}] :
        a \in SeqsUpTo(T1Rows, MaxRows), b \in T2Tables }
    \cup { [data |-> ExampleData, failing |-> {t}] : t \in {"t1", "t2", "t3"} }

\* WHERE and LIMIT together: every window without a WHERE, LIMIT 1 OFFSET 1
\* under WHERE t1.id = 1, and WHERE t2.val = 10 without a window.
WhereLimits ==
    { wl \in {None, WhereId, WhereVal} \X Limits :
        \/ wl[1] = None
        \/ wl[2] = None
        \/ wl[1] = WhereId /\ wl[2] = Some(Window(Some(1), Some(1))) }

Statements ==
    { [tables |-> <<"t1">>, join |-> j, where_clause |-> wl[1], limit |-> wl[2],
       fields |-> <<"*">>] :
        j \in JoinLists, wl \in WhereLimits }

(* ------------------------------ machine ------------------------------- *)
\* History of the pipeline's steps: the stage, the driving row's key, the join
\* clause index (or the ordinal enumerate assigned), the table scanned and the
\* stage's result.
Event(ev, d, n, t, r) == [ev |-> ev, d |-> d, k |-> n, t |-> t, r |-> r]

Init ==
    /\ storage \in Stores
    /\ statement \in Statements
    /\ params = fetch_select_params(statement)
    /\ pc = "start"
    /\ pos = 0
    /\ k = 0
    /\ blend_context = None
    /\ ordinal = 0
    /\ out = << >>
    /\ fault = ""
    /\ drv = 0
    /\ log = << >>

\* select(): fetch_blended unwraps the driving table's scan while the pipeline
\* is being built.
Select ==
    /\ pc = "start"
    /\ IF get_data(storage, params.table).ok
       THEN pc' = "pull" /\ fault' = fault
       ELSE pc' = "panic" /\ fault' = "unwrap:fetch_blended"
    /\ UNCHANGED <<storage, statement, params, pos, k, blend_context, ordinal, out, drv, log>>

\* A row source that enumerates the table back to front.
Pull_Reversed ==
    /\ pc = "pull"
    /\ LET rows == get_data(storage, params.table).rows
       IN  IF pos < Len(rows)
           THEN /\ pos' = pos + 1
                /\ blend_context' =
                       Some(SeedContext(params.table, params.columns, rows[Len(rows) - pos]))
                /\ drv' = rows[Len(rows) - pos].key
                /\ k' = 1
                /\ pc' = IF Len(statement.join) = 0 THEN "filter" ELSE "join"
                /\ log' = Append(log, Event("pull", rows[Len(rows) - pos].key, 0, params.table, ""))
           ELSE /\ pc' = "done"
                /\ UNCHANGED <<pos, blend_context, k, drv, log>>
    /\ UNCHANGED <<storage, statement, params, ordinal, out, fault>>

\* The consumer pulls: fetch_blended yields the next seed chain, or ends.
Pull ==
    /\ pc = "pull"
    /\ LET rows == get_data(storage, params.table).rows
       IN  IF pos < Len(rows)
           THEN /\ pos' = pos + 1
                /\ blend_context' =
                       Some(SeedContext(params.table, params.columns, rows[pos + 1]))
                /\ drv' = rows[pos + 1].key
                /\ k' = 1
                /\ pc' = IF Len(statement.join) = 0 THEN "filter" ELSE "join"
                /\ log' = Append(log, Event("pull", rows[pos + 1].key, 0, params.table, ""))
           ELSE /\ pc' = "done"
                /\ UNCHANGED <<pos, blend_context, k, drv, log>>
    /\ UNCHANGED <<storage, statement, params, ordinal, out, fault>>

\* A fold that hands the chain to the filter after its first clause.
JoinStep_FilterEarly ==
    /\ pc = "join"
    /\ LET r == join(storage, statement.join[k], params.join_columns[k].table,
                     params.join_columns[k].columns, blend_context[1])
       IN  /\ log' = Append(log, Event("join", drv, k, params.join_columns[k].table, r.tag))
           /\ IF r.tag = "Panic"
              THEN /\ pc' = "panic"
                   /\ fault' = r.why
                   /\ UNCHANGED <<blend_context, k>>
              ELSE /\ blend_context' = r.ctx
                   /\ fault' = fault
                   /\ k' = k + 1
                   /\ pc' = IF r.tag = "None" THEN "pull" ELSE "filter"
    /\ UNCHANGED <<storage, statement, params, pos, ordinal, out, drv>>

\* One step of the fold: join() for clause k zipped with join_columns[k].
\* and_then skips every later clause once the chain is None.
JoinStep ==
    /\ pc = "join"
    /\ LET r == join(storage, statement.join[k], params.join_columns[k].table,
                     params.join_columns[k].columns, blend_context[1])
       IN  /\ log' = Append(log, Event("join", drv, k, params.join_columns[k].table, r.tag))
           /\ IF r.tag = "Panic"
              THEN /\ pc' = "panic"
                   /\ fault' = r.why
                   /\ UNCHANGED <<blend_context, k>>
              ELSE /\ blend_context' = r.ctx
                   /\ fault' = fault
                   /\ k' = k + 1
                   /\ pc' = IF r.tag = "None" THEN "pull"
                            ELSE IF k = Len(statement.join) THEN "filter"
                            ELSE "join"
    /\ UNCHANGED <<storage, statement, params, pos, ordinal, out, drv>>

\* .filter(BlendedFilter::new(&filter, &blend_context).check(None)); a WHERE
\* column that no scope of the chain declares ends the query (ColumnNotFound).
FilterStep ==
    /\ pc = "filter"
    /\ LET r == check(statement.where_clause, None, blend_context)
       IN  /\ pc' = IF r = "true" THEN "limit" ELSE IF r = "false" THEN "pull" ELSE "error"
           /\ fault' = IF r = "notfound" THEN "ColumnNotFound" ELSE fault
           /\ log' = Append(log, Event("where", drv, 0, "", r))
    /\ UNCHANGED <<storage, statement, params, pos, k, blend_context, ordinal, out, drv>>

\* A limit gate fed the scan position (enumerate placed in front of the joins
\* and the filter) instead of the admitted ordinal.
LimitStep_RawOrdinal ==
    /\ pc = "limit"
    /\ ordinal' = ordinal + 1
    /\ pc' = IF limit_check(statement.limit, pos - 1) THEN "project" ELSE "pull"
    /\ log' = Append(log, Event("limit", drv, pos - 1, "",
                                 IF limit_check(statement.limit, pos - 1) THEN "in" ELSE "out"))
    /\ UNCHANGED <<storage, statement, params, pos, k, blend_context, out, fault, drv>>

\* .enumerate().filter_map(limit.check(i))
LimitStep ==
    /\ pc = "limit"
    /\ ordinal' = ordinal + 1
    /\ pc' = IF limit_check(statement.limit, ordinal) THEN "project" ELSE "pull"
    /\ log' = Append(log, Event("limit", drv, ordinal, "",
                                 IF limit_check(statement.limit, ordinal) THEN "in" ELSE "out"))
    /\ UNCHANGED <<storage, statement, params, pos, k, blend_context, out, fault, drv>>

\* .map(|BlendContext { columns, row, .. }| blend.apply(&columns, row))
ProjectStep ==
    /\ pc = "project"
    /\ out' = Append(out, blend_apply(statement.fields, blend_context[1].columns,
                                      blend_context[1].row))
    /\ pc' = "pull"
    /\ log' = Append(log, Event("project", drv, 0, "", ""))
    /\ UNCHANGED <<storage, statement, params, pos, k, blend_context, ordinal, fault, drv>>

Next == Select \/ Pull \/ JoinStep \/ FilterStep \/ LimitStep \/ ProjectStep

Spec == Init /\ [][Next]_vars

(* ------------------------- claim vocabulary --------------------------- *)
\* Indexes of the rows of table t that satisfy ON t1.id = t.id for driving row d.
Satisfying(t, d) ==
    { i \in 1..Len(storage.data[t]) : storage.data[t][i][1] = storage.data["t1"][d][1] }

MinOf(S) == CHOOSE x \in S : \A y \in S : x <= y

\* Log positions of a stage's events for driving row d.
Events(ev, d) == { e \in 1..Len(log) : log[e].ev = ev /\ log[e].d = d }

\* The position in out of the row the project event at log position e appended.
OutIndex(e) == Cardinality({ j \in 1..e : log[j].ev = "project" })

OutRows(d) == { out[OutIndex(e)] : e \in Events("project", d) }

\* Row r ends with the values of row tail.
EndsWith(r, tail) ==
    Len(r) >= Len(tail) /\ SubSeq(r, Len(r) - Len(tail) + 1, Len(r)) = tail

Inner == {"Join", "InnerJoin"}

Left == {"LeftJoin", "LeftOuterJoin"}

Unfiltered == statement.where_clause = None /\ statement.limit = None

\* The window of the statement's LIMIT clause, as the statement states it.
InWindow(o) ==
    \/ statement.limit = None
    \/ LET w   == statement.limit[1]
           off == IF w.offset = None THEN 0 ELSE w.offset[1]
       IN  o >= off /\ (w.count = None \/ o < off + w.count[1])

\* The ordinal of the chain admitted by the where event at log position e:
\* how many chains the WHERE filter admitted before it.
OrdinalOf(e) == Cardinality({ j \in 1..(e - 1) : log[j].ev = "where" /\ log[j].r = "true" })

\* Driving row d passed the WHERE filter and its ordinal lies in the window.
Admitted(d) ==
    \E e \in Events("where", d) : log[e].r = "true" /\ InWindow(OrdinalOf(e))

(* -------------------------------- C1 ---------------------------------- *)
\* C1: for an INNER JOIN / JOIN clause and a driving row d whose join ran: with
\* no satisfying row in the joined table the join returns no chain and no output
\* row is ever produced for d; with one or more satisfying rows the join returns
\* one chain whose new innermost scope is the first satisfying row in storage
\* order, d never has more than one output row (never one per match), in a
\* finished query d has one output row exactly when the WHERE filter and the
\* limit window admit its chain, and when the clause is the last one and
\* nothing filters or windows the chains, d has exactly one output row, which
\* ends with the values of that first satisfying row.
C1_InnerJoinFirstMatchOnce ==
    \A e \in 1..Len(log) :
        (log[e].ev = "join" /\ log[e].r # "Panic"
         /\ statement.join[log[e].k].operator \in Inner) =>
        LET d   == log[e].d
            t   == statement.join[log[e].k].right
            sat == Satisfying(t, d)
        IN  /\ sat = {} => log[e].r = "None" /\ Events("project", d) = {}
            /\ sat # {} =>
                /\ log[e].r = "Some"
                /\ Cardinality(Events("project", d)) <= 1
                /\ e = Len(log) =>
                     /\ IsSome(blend_context)
                     /\ blend_context[1].table = t
                     /\ blend_context[1].key = MinOf(sat)
                     /\ blend_context[1].row = storage.data[t][MinOf(sat)]
                /\ pc = "done" => (Cardinality(Events("project", d)) = 1 <=> Admitted(d))
                /\ (pc = "done" /\ log[e].k = Len(statement.join) /\ Unfiltered) =>
                     /\ Cardinality(Events("project", d)) = 1
                     /\ \A r \in OutRows(d) : EndsWith(r, storage.data[t][MinOf(sat)])

\* A finished query whose only clause is an inner join, with a driving row that
\* has two satisfying rows and one output row.
C1_Witness ==
    /\ pc = "done"
    /\ Len(statement.join) = 1
    /\ statement.join[1].operator \in Inner
    /\ Unfiltered
    /\ \E d \in 1..Len(storage.data["t1"]) :
          /\ Cardinality(Satisfying("t2", d)) >= 2
          /\ Cardinality(Events("project", d)) = 1
(* -------------------------------- C2 ---------------------------------- *)
\* Clause k is a LEFT [OUTER] JOIN about to run for the current driving row,
\* and no row of its table satisfies the ON predicate.
LeftUnmatchedNow ==
    /\ pc = "join"
    /\ statement.join[k].operator \in Left
    /\ statement.join[k].constraint.kind = "On"
    /\ statement.join[k].right \notin storage.failing
    /\ Satisfying(statement.join[k].right, drv) = {}

\* In a finished query, every driving row that a LEFT JOIN left unmatched and
\* that the WHERE filter and the window admit has exactly one output row.
LeftUnmatchedOutput ==
    \A e \in 1..Len(log) :
        (log[e].ev = "join" /\ log[e].r # "Panic"
         /\ statement.join[log[e].k].operator \in Left
         /\ Satisfying(statement.join[log[e].k].right, log[e].d) = {}) =>
        /\ log[e].r = "Some"
        /\ Admitted(log[e].d) => Cardinality(Events("project", log[e].d)) = 1

\* C2: a LEFT JOIN / LEFT OUTER JOIN whose table holds no satisfying row returns
\* the incoming chain unchanged (no scope added, the fold goes on), and the
\* driving row still has exactly one output row when the WHERE filter and the
\* limit window admit it.
C2_LeftJoinPassesChain ==
    [][ /\ LeftUnmatchedNow => (blend_context' = blend_context /\ pc' \in {"join", "filter"})
        /\ pc' = "done" => LeftUnmatchedOutput' ]_vars

\* A finished query in which a LEFT JOIN found no match for a driving row that
\* was output all the same.
C2_Witness ==
    /\ pc = "done"
    /\ \E e \in 1..Len(log) :
          /\ log[e].ev = "join" /\ log[e].r = "Some"
          /\ statement.join[log[e].k].operator \in Left
          /\ Satisfying(statement.join[log[e].k].right, log[e].d) = {}
          /\ Events("project", log[e].d) # {}

(* -------------------------------- C3 ---------------------------------- *)
\* The rows of every scope of a chain, outermost (driving) scope first.
RECURSIVE ChainRows(_)
ChainRows(ctx) ==
    IF ctx = None THEN << >> ELSE ChainRows(ctx[1].next) \o ctx[1].row

ExampleQuery ==
    /\ storage.data["t1"] = ExampleData["t1"]
    /\ storage.data["t2"] = ExampleData["t2"]
    /\ storage.failing = {}
    /\ Len(statement.join) = 1
    /\ statement.join[1].operator = "InnerJoin"
    /\ statement.join[1].constraint.kind = "On"
    /\ Unfiltered

\* C3: with the wildcard field list an output row holds the driving table's
\* values and then the joined table's values; the example query yields exactly
\* [(1, "a", 1, 10)].
C3_WildcardAllScopes ==
    /\ (Len(log) > 0 /\ log[Len(log)].ev = "project") =>
           out[Len(out)] = ChainRows(blend_context)
    /\ (ExampleQuery /\ pc = "done") =>
           out = << <<IntV(1), StrV("a"), IntV(1), IntV(10)>> >>

(* -------------------------------- C4 ---------------------------------- *)
\* No admitted chain is between the WHERE filter and its projection.
Quiescent == pc \notin {"limit", "project"}

\* C4: between rows, the driving rows with an output row are exactly those
\* whose chain passed the WHERE filter with an ordinal (counted over the
\* chains that passed it, from 0) inside the window; the ordinal the limit
\* gate saw is that ordinal; and output rows come in ordinal order.
C4_WindowOverAdmitted ==
    Quiescent =>
        /\ \A e \in 1..Len(log) :
              /\ log[e].ev = "where" =>
                    (Events("project", log[e].d) # {}
                        <=> (log[e].r = "true" /\ InWindow(OrdinalOf(e))))
              /\ log[e].ev = "limit" =>
                    \E w \in Events("where", log[e].d) :
                        w < e /\ log[w].r = "true" /\ log[e].k = OrdinalOf(w)
              /\ log[e].ev = "project" => Events("where", log[e].d) # {}
        /\ \A p, q \in 1..Len(log) :
              (log[p].ev = "project" /\ log[q].ev = "project" /\ p < q) =>
                  \A wp \in Events("where", log[p].d), wq \in Events("where", log[q].d) :
                      OrdinalOf(wp) < OrdinalOf(wq)
        /\ Len(out) = Cardinality({ e \in 1..Len(log) : log[e].ev = "project" })

\* LIMIT 1 OFFSET 1 over three admitted chains, one of them behind a rejected
\* row: only the chain with ordinal 1 is output.
C4_Witness ==
    /\ pc = "done"
    /\ statement.limit = Some(Window(Some(1), Some(1)))
    /\ Cardinality({ e \in 1..Len(log) : log[e].ev = "where" /\ log[e].r = "true" }) >= 2
    /\ \E e \in 1..Len(log) : log[e].ev = "where" /\ log[e].r = "false" /\ OrdinalOf(e) = 1
    /\ Len(out) = 1

(* -------------------------------- C5 ---------------------------------- *)
\* C5: seed chains are pulled in storage order, output rows come in the order
\* of their driving rows with at most one per driving row, and a query with
\* no join, no WHERE and no limit outputs every driving row, in order.
C5_ScanOrderPreserved ==
    /\ \A p, q \in 1..Len(log) :
          (p < q /\ log[p].ev = log[q].ev /\ log[p].ev \in {"pull", "project"})
              => log[p].d < log[q].d
    /\ \A d \in 1..Len(storage.data["t1"]) : Cardinality(Events("project", d)) <= 1
    /\ (pc = "done" /\ Len(statement.join) = 0 /\ Unfiltered) =>
           /\ Len(out) = Len(storage.data["t1"])
           /\ \A i \in 1..Len(out) : out[i] = storage.data["t1"][i]

\* A finished query without join, WHERE or limit over three driving rows.
C5_Witness ==
    /\ pc = "done"
    /\ Len(statement.join) = 0
    /\ Unfiltered
    /\ Len(out) >= 2
    /\ out[1] # out[2]

(* -------------------------------- C6 ---------------------------------- *)
\* C6: a join clause with an operator other than JOIN, INNER JOIN, LEFT JOIN,
\* LEFT OUTER JOIN ends in an UnsupportedJoinOperator error, whether or not a
\* row satisfies ON: it neither extends the chain nor panics.
C6_UnsupportedOperatorError ==
    \A e \in 1..Len(log) :
        (log[e].ev = "join"
         /\ statement.join[log[e].k].operator \notin (Inner \cup Left)
         /\ statement.join[log[e].k].constraint.kind = "On"
         /\ statement.join[log[e].k].right \notin storage.failing) =>
        /\ log[e].r \notin {"Some", "Panic"}
        /\ pc = "error"
        /\ fault = "UnsupportedJoinOperator"

(* -------------------------------- C7 ---------------------------------- *)
\* C7: a table that cannot be scanned (the driving table when the pipeline is
\* built, a joined table in a join's scan) ends the query in a
\* StorageUnavailable error, not a panic, with no row output from that scan.
C7_StorageUnavailableError ==
    /\ (pc # "start" /\ params.table \in storage.failing) =>
           (pc = "error" /\ fault = "StorageUnavailable" /\ out = << >>)
    /\ \A e \in 1..Len(log) :
          (log[e].ev = "join" /\ log[e].t \in storage.failing
           /\ statement.join[log[e].k].constraint.kind = "On") =>
              (pc = "error" /\ fault = "StorageUnavailable" /\ log[e].r # "Panic")
(* -------------------------------- C8 ---------------------------------- *)
\* Log positions before e of a stage's events for the driving row of e.
Before(ev, e) == { j \in Events(ev, log[e].d) : j < e }

\* C8: the WHERE predicate of a driving row is evaluated only after every join
\* clause was applied to its chain and returned a chain; a chain gets its limit
\* ordinal only after WHERE admitted it, and is projected only after the limit
\* gate let it through; a chain WHERE rejects is never projected.
C8_JoinsThenWhereThenLimit ==
    \A e \in 1..Len(log) :
        /\ log[e].ev = "where" =>
              /\ { log[j].k : j \in Before("join", e) } = 1..Len(statement.join)
              /\ \A j \in Before("join", e) : log[j].r = "Some"
              /\ Before("limit", e) = {} /\ Before("project", e) = {}
              /\ log[e].r # "true" => Events("project", log[e].d) = {}
        /\ (log[e].ev = "join" /\ log[e].r # "Some") => Events("where", log[e].d) = {}
        /\ log[e].ev = "limit" =>
              /\ \E w \in Before("where", e) : log[w].r = "true"
              /\ Before("project", e) = {}
        /\ log[e].ev = "project" =>
              \E l \in Before("limit", e) : log[l].r = "in"

\* A projected row of a two-clause query whose WHERE reads a joined column.
C8_Witness ==
    /\ Len(statement.join) = 2
    /\ statement.where_clause = WhereVal
    /\ Len(log) > 0
    /\ log[Len(log)].ev = "project"
    /\ \E d \in 1..Len(storage.data["t1"]) : \E j \in Events("join", d) : log[j].r = "None"

(* -------------------------------- C9 ---------------------------------- *)
\* C9: for each driving row the join clauses run in statement order, the i-th
\* run scanning the table the i-th clause names (with that table's columns);
\* every run before the last returned a chain, so after a clause drops the
\* chain no later clause runs for that driving row.
C9_ClausesInOrderShortCircuit ==
    \A e \in 1..Len(log) :
        log[e].ev = "join" =>
            /\ log[e].k = Cardinality(Before("join", e)) + 1
            /\ log[e].k <= Len(statement.join)
            /\ log[e].t = statement.join[log[e].k].right
            /\ \A j \in Before("join", e) : log[j].r = "Some" /\ log[j].k < log[e].k
            /\ (e = Len(log) /\ log[e].r = "Some"
                /\ Satisfying(log[e].t, log[e].d) # {}) =>
                   /\ blend_context[1].table = statement.join[log[e].k].right
                   /\ blend_context[1].columns = fetch_columns(statement.join[log[e].k].right)
                   /\ Len(blend_context[1].columns) = Len(blend_context[1].row)

\* A driving row dropped by the first of two clauses, and a later driving row
\* that ran both.
C9_Witness ==
    /\ Len(statement.join) = 2
    /\ \E d1, d2 \in 1..Len(storage.data["t1"]) :
          /\ d1 < d2
          /\ \E j \in Events("join", d1) : log[j].k = 1 /\ log[j].r = "None"
          /\ \E j \in Events("join", d2) : log[j].k = 2 /\ log[j].r = "Some"

(* -------------------------------- C10 --------------------------------- *)
RECURSIVE ChainTables(_)
ChainTables(ctx) ==
    IF ctx = None THEN << >> ELSE <<ctx[1].table>> \o ChainTables(ctx[1].next)

RECURSIVE Outermost(_)
Outermost(ctx) ==
    IF ctx[1].next = None THEN ctx[1] ELSE Outermost(ctx[1].next)

\* The clauses, among the first n, whose table holds a satisfying row for the
\* current driving row, latest clause first.
RECURSIVE MatchedTables(_)
MatchedTables(n) ==
    IF n = 0 THEN << >>
    ELSE (IF Satisfying(statement.join[n].right, drv) # {}
          THEN <<statement.join[n].right>> ELSE << >>) \o MatchedTables(n - 1)

\* How many clauses have been folded over the current driving row.
Folded == IF pc = "join" THEN k - 1 ELSE Len(statement.join)

ChainShape ==
    (pc \in {"join", "filter", "limit", "project"}) =>
        /\ IsSome(blend_context)
        /\ ChainTables(blend_context) = MatchedTables(Folded) \o <<"t1">>
        /\ Len(ChainTables(blend_context)) \in 1..(Folded + 1)
        /\ Outermost(blend_context) =
               [table |-> "t1", columns |-> fetch_columns("t1"), key |-> drv,
                row |-> storage.data["t1"][drv], next |-> None]

\* C10: while a driving row is in the pipeline its chain ends in the driving
\* table's scope (no further link), holds in front of it exactly the scopes of
\* the clauses folded so far that found a match, latest first, so has between
\* 1 and folded + 1 scopes; and a join that matches links the incoming chain,
\* unchanged, behind the new scope.
C10_ChainShape ==
    [][ /\ ChainShape'
        /\ (pc = "join" /\ pc' \in {"join", "filter"}
            /\ Satisfying(statement.join[k].right, drv) # {}) =>
               blend_context'[1].next = blend_context ]_vars

\* A chain of three scopes: both clauses matched.
C10_Witness ==
    /\ pc = "filter"
    /\ ChainTables(blend_context) = <<"t3", "t2", "t1">>
====
